---- MODULE Spec2Model ----
(***************************************************************************)
(* The five demonstration scripts of the repository, run statement by      *)
(* statement.  Each script is a straight-line Python module (one `if` in   *)
(* the two Streamlit scripts); a run executes its statements in order.     *)
(* The hosted model, the embedding service and the user's widgets are the  *)
(* environment: their answers are drawn from small sets, and every SDK     *)
(* call may raise instead of returning.                                    *)
(***************************************************************************)
EXTENDS Integers, Sequences, FiniteSets, TLC

VARIABLES
    script,        \* the file being run
    run,           \* 0 for the first execution, +1 for every re-execution
    pc,            \* index of the next statement in Program(script)
    status,        \* "running" | "done" | "raised"
    error,         \* the uncaught exception of this run, "None" if none
    g,             \* the module's global names (model, result, ...)
    ui,            \* what the user has set in each widget: <<label, value>>
    out,           \* what print / st.header / st.write have emitted, in order
    calls,         \* the library calls made in this run, in order
    invoke_input   \* the mapping handed to chat_template.invoke

vars == <<script, run, pc, status, error, g, ui, out, calls, invoke_input>>

(***************************************************************************)
(* Bounds and the environment's answers.                                   *)
(***************************************************************************)
MaxRuns == 2

None == "None"

\* what the hosted chat model may answer
Responses == {"resp_a", "resp_b"}

\* what the embedding service may answer for one document
Vectors == {"vec_a", "vec_b"}

\* what the user may type into st.text_input
Queries == {"", "what is AI", "hello"}

\* values tried for 'domain' and 'topic'
Values == {"cricket", "Dusra", "football", "offside", "", "{"}

(***************************************************************************)
(* Statements.                                                             *)
(***************************************************************************)
Stmt(line, op, target, text, options, skip) ==
    [line |-> line, op |-> op, target |-> target, text |-> text,
     options |-> options, skip |-> skip]


\* Python's `if x:` with one body of `skip` statements: the statement that
\* follows when the condition is b
Branch(b, skip) == IF b THEN 1 ELSE 1 + skip

(***************************************************************************)
(* 01_LangChainModels/ChatModels/googleGeminiChatModelDemo.py              *)
(***************************************************************************)
\* faulty variant: the response is printed before the model is invoked
googleGeminiChatModelDemo_PrintFirst ==
    << Stmt(3,  "load_dotenv", "", <<>>, <<>>, 0),
       Stmt(5,  "print", "", <<"Started">>, <<>>, 0),
       Stmt(8,  "ChatGoogleGenerativeAI", "model", <<"gemini-2.5-flash">>, <<>>, 0),
       Stmt(10, "print(result.content)", "", <<>>, <<>>, 0),
       Stmt(9,  "model.invoke", "result",
                <<"Tell me a poem of 5 lines on Football">>, <<>>, 0) >>

googleGeminiChatModelDemo ==
    << Stmt(3,  "load_dotenv", "", <<>>, <<>>, 0),
       Stmt(5,  "print", "", <<"Started">>, <<>>, 0),
       Stmt(8,  "ChatGoogleGenerativeAI", "model", <<"gemini-2.5-flash">>, <<>>, 0),
       Stmt(9,  "model.invoke", "result",
                <<"Tell me a poem of 5 lines on Football">>, <<>>, 0),
       Stmt(10, "print(result.content)", "", <<>>, <<>>, 0) >>

(***************************************************************************)
(* 01_LangChainModels/EmbeddingModels/embedd_docs.py                       *)
(***************************************************************************)
embedd_docs ==
    << Stmt(4,  "load_dotenv", "", <<>>, <<>>, 0),
       Stmt(6,  "print", "", <<"Working on Embeddings">>, <<>>, 0),
       Stmt(8,  "documents", "documents",
                <<"Delhi is the capital of India",
                  "Kolkata is the capital of West Bengal",
                  "Paris is the capital of France">>, <<>>, 0),
       Stmt(13, "GoogleGenerativeAIEmbeddings", "embedding",
                <<"models/gemini-embedding-001">>, <<>>, 0),
       Stmt(15, "embedding.embed_documents", "result", <<>>, <<"documents">>, 0),
       Stmt(16, "print(str(result))", "", <<"Query Result: ">>, <<>>, 0) >>

(***************************************************************************)
(* 02_Prompts/chatPromptTemplate.py                                        *)
(***************************************************************************)
\* the two (role, template) pairs; a template string is the sequence of its
\* literal pieces with "{", the field name and "}" as pieces of their own
ChatMessages ==
    << [role |-> "system",
        template |-> <<"You are a helpful ", "{", "domain", "}", " expert">>],
       [role |-> "human",
        template |-> <<"Explain in simple terms, what is ", "{", "topic", "}">>] >>

\* {'domain':'cricket','topic':'Dusra'}
ChatTemplateInput == {<<"domain", "cricket">>, <<"topic", "Dusra">>}

chatPromptTemplate ==
    << Stmt(3,  "ChatPromptTemplate", "chat_template", <<>>, <<>>, 0),
       Stmt(8,  "chat_template.invoke", "prompt", <<>>, <<>>, 0),
       Stmt(10, "print(prompt)", "", <<>>, <<>>, 0) >>

(***************************************************************************)
(* 02_Prompts/simpleUIApplication.py                                       *)
(***************************************************************************)
\* faulty variant: the client is constructed before load_dotenv() is called
simpleUIApplication_ClientFirst ==
    << Stmt(8,  "ChatGoogleGenerativeAI", "model", <<"gemini-2.5-flash">>, <<>>, 0),
       Stmt(3,  "load_dotenv", "", <<>>, <<>>, 0),
       Stmt(5,  "st.header", "", <<"Simple Gemini Chat Application">>, <<>>, 0),
       Stmt(6,  "st.text_input", "user_input",
                <<"Please enter your query for Gemini....">>, <<>>, 0),
       Stmt(9,  "st.button", "", <<"Go.....">>, <<>>, 2),
       Stmt(10, "model.invoke", "result", <<>>, <<"user_input">>, 0),
       Stmt(12, "st.write(result.content)", "", <<>>, <<>>, 0) >>

simpleUIApplication ==
    << Stmt(3,  "load_dotenv", "", <<>>, <<>>, 0),
       Stmt(5,  "st.header", "", <<"Simple Gemini Chat Application">>, <<>>, 0),
       Stmt(6,  "st.text_input", "user_input",
                <<"Please enter your query for Gemini....">>, <<>>, 0),
       Stmt(8,  "ChatGoogleGenerativeAI", "model", <<"gemini-2.5-flash">>, <<>>, 0),
       Stmt(9,  "st.button", "", <<"Go.....">>, <<>>, 2),
       Stmt(10, "model.invoke", "result", <<>>, <<"user_input">>, 0),
       Stmt(12, "st.write(result.content)", "", <<>>, <<>>, 0) >>

(***************************************************************************)
(* 02_Prompts/dynamicPromptbasedApplication.py                             *)
(***************************************************************************)
DynamicTemplateText ==
    << "\nPlease summarize the research paper titled \"",
       "{", "paper_input", "}",
       "\" with the following specifications:\nExplanation Style: ",
       "{", "style_input", "}",
       "  \nExplanation Length: ",
       "{", "length_input", "}",
       "  \n1. Mathematical Details:  \n",
       "   - Include relevant mathematical equations if present in the paper.  \n",
       "   - Explain the mathematical concepts using simple, intuitive code snippets where applicable.  \n",
       "2. Analogies:  \n",
       "   - Use relatable analogies to simplify complex ideas.  \n",
       "If certain information is not available in the paper, respond with: \"Insufficient information available\" instead of guessing.  \n",
       "Ensure the summary is clear, accurate, and aligned with the provided style and length.\n" >>

\* faulty variant: one placeholder of the text is not declared
DynamicInputVariables_Missing == <<"paper_input", "style_input">>

DynamicInputVariables == <<"paper_input", "style_input", "length_input">>

\* the keys of the dict handed to chain.invoke, and the names they are bound to
ChainInvokeKeys == <<"paper_input", "style_input", "length_input">>

\* faulty variant: style and length are bound the wrong way round
ChainInvokeNames_Swapped == <<"paper_input", "length_input", "style_input">>

ChainInvokeNames == <<"paper_input", "style_input", "length_input">>

PaperOptions ==
    << "Attention Is All You Need",
       "BERT: Pre-training of Deep Bidirectional Transformers",
       "GPT-3: Language Models are Few-Shot Learners",
       "Diffusion Models Beat GANs on Image Synthesis" >>

StyleOptions == <<"Beginner-Friendly", "Technical", "Code-Oriented", "Mathematical">>

LengthOptions ==
    <<"Short (1-2 paragraphs)", "Medium (3-5 paragraphs)", "Long (detailed explanation)">>

dynamicPromptbasedApplication ==
    << Stmt(7,  "PromptTemplate", "template", DynamicTemplateText,
                DynamicInputVariables, 0),
       Stmt(26, "load_dotenv", "", <<>>, <<>>, 0),
       Stmt(27, "ChatGoogleGenerativeAI", "model", <<>>, <<>>, 0),
       Stmt(29, "st.header", "", <<"Reasearch Tool">>, <<>>, 0),
       Stmt(31, "st.selectbox", "paper_input",
                <<"Select Research Paper Name">>, PaperOptions, 0),
       Stmt(33, "st.selectbox", "style_input",
                <<"Select Explanation Style">>, StyleOptions, 0),
       Stmt(35, "st.selectbox", "length_input",
                <<"Select Explanation Length">>, LengthOptions, 0),
       Stmt(40, "st.button", "", <<"Summarize">>, <<>>, 3),
       Stmt(41, "template | model", "chain", <<>>, <<>>, 0),
       Stmt(44, "chain.invoke", "result", ChainInvokeKeys, ChainInvokeNames, 0),
       Stmt(49, "st.write(result.content)", "", <<>>, <<>>, 0) >>

Scripts ==
    {"googleGeminiChatModelDemo.py", "embedd_docs.py", "chatPromptTemplate.py",
     "simpleUIApplication.py", "dynamicPromptbasedApplication.py"}

\* the scripts that import streamlit
StreamlitScripts == {"simpleUIApplication.py", "dynamicPromptbasedApplication.py"}

Program(s) ==
    CASE s = "googleGeminiChatModelDemo.py"     -> googleGeminiChatModelDemo
      [] s = "embedd_docs.py"                   -> embedd_docs
      [] s = "chatPromptTemplate.py"            -> chatPromptTemplate
      [] s = "simpleUIApplication.py"           -> simpleUIApplication
      [] s = "dynamicPromptbasedApplication.py" -> dynamicPromptbasedApplication


(***************************************************************************)
(* What the library calls of the scripts compute.                          *)
(***************************************************************************)
\* a dict is the set of its <<key, value>> items
Keys(kw) == {p[1] : p \in kw}

Lookup(kw, k) == (CHOOSE p \in kw : p[1] = k)[2]

\* {'k1': n1, ...}: each key bound to the current value of a global name
DictOf(keys, names, globals) ==
    {<<keys[i], globals[names[i]]>> : i \in 1..Len(keys)}

\* the field names between braces in a template string
get_template_variables(t) ==
    {t[i + 1] : i \in {j \in 1..(Len(t) - 2) : t[j] = "{" /\ t[j + 2] = "}"}}

\* validate_template=True: the declared input_variables are those of the text
check_valid_template(t, input_variables) ==
    get_template_variables(t) = {input_variables[i] : i \in 1..Len(input_variables)}

\* faulty variant: the field name is written out instead of its value
RECURSIVE format_FieldName(_, _)
format_FieldName(t, kw) ==
    IF t = <<>> THEN <<>>
    ELSE IF Len(t) >= 3 /\ t[1] = "{" /\ t[3] = "}"
         THEN <<t[2]>> \o format_FieldName(SubSeq(t, 4, Len(t)), kw)
         ELSE <<t[1]>> \o format_FieldName(Tail(t), kw)

\* str.format over one template string: every {name} replaced by kw[name],
\* every other piece kept
RECURSIVE format(_, _)
format(t, kw) ==
    IF t = <<>> THEN <<>>
    ELSE IF Len(t) >= 3 /\ t[1] = "{" /\ t[3] = "}"
         THEN <<Lookup(kw, t[2])>> \o format(SubSeq(t, 4, Len(t)), kw)
         ELSE <<t[1]>> \o format(Tail(t), kw)

MessageType(role) ==
    CASE role = "system" -> "SystemMessage"
      [] role = "human"  -> "HumanMessage"

\* ChatPromptTemplate.invoke: one message per (role, template) pair, in order
format_messages(msgs, kw) ==
    [i \in 1..Len(msgs) |->
        [type |-> MessageType(msgs[i].role),
         content |-> format(msgs[i].template, kw)]]

\* the variables of every message template of a chat template
chat_input_variables(msgs) ==
    UNION {get_template_variables(msgs[i].template) : i \in 1..Len(msgs)}

\* str() of a list: its items between brackets, separated by ", "
RECURSIVE join(_)
join(xs) ==
    IF xs = <<>> THEN <<>>
    ELSE IF Len(xs) = 1 THEN <<xs[1]>>
    ELSE <<xs[1], ", ">> \o join(Tail(xs))

str(xs) == <<"[">> \o join(xs) \o <<"]">>

(***************************************************************************)
(* Running a script.                                                       *)
(***************************************************************************)
NoGlobals ==
    [model |-> None, embedding |-> None, documents |-> <<>>,
     template |-> [template |-> <<>>, input_variables |-> <<>>],
     chat_template |-> <<>>, chain |-> <<>>, prompt |-> <<>>,
     user_input |-> None, paper_input |-> None, style_input |-> None,
     length_input |-> None, result |-> [content |-> None]]

Cur == Program(script)[pc]

At(op) == status = "running" /\ pc <= Len(Program(script)) /\ Cur.op = op

Call(fn, args, kw, ok, ret) ==
    [line |-> Cur.line, fn |-> fn, args |-> args, kw |-> kw, ok |-> ok, ret |-> ret]

Emit(fn, src, text) == [fn |-> fn, src |-> src, text |-> text]

\* the statement completes and control moves n statements on
Goto(n) ==
    /\ pc' = pc + n
    /\ status' = IF pc + n > Len(Program(script)) THEN "done" ELSE "running"
    /\ error' = error

\* faulty variant: the exception is swallowed and the run goes on
Raise_Swallowed(kind) == Goto(1)

\* the statement raises: nothing in the scripts catches it, the run ends here
Raise(kind) ==
    /\ pc' = pc
    /\ status' = "raised"
    /\ error' = kind

InitRun(s, kw) ==
    /\ script = s
    /\ run = 0
    /\ pc = 1
    /\ status = "running"
    /\ error = None
    /\ g = NoGlobals
    /\ ui = {}
    /\ out = <<>>
    /\ calls = <<>>
    /\ invoke_input = kw

Init == \E s \in Scripts : InitRun(s, ChatTemplateInput)


(***************************************************************************)
(* One action per kind of statement.                                       *)
(***************************************************************************)
\* load_dotenv()
LoadDotenv ==
    /\ At("load_dotenv")
    /\ calls' = Append(calls, Call("load_dotenv", <<>>, {}, TRUE, <<>>))
    /\ Goto(1)
    /\ UNCHANGED <<script, run, g, ui, out, invoke_input>>

\* print("...")
PrintLiteral ==
    /\ At("print")
    /\ out' = Append(out, Emit("print", "", Cur.text))
    /\ Goto(1)
    /\ UNCHANGED <<script, run, g, ui, calls, invoke_input>>

\* documents = [...]
AssignDocuments ==
    /\ At("documents")
    /\ g' = [g EXCEPT !.documents = Cur.text]
    /\ Goto(1)
    /\ UNCHANGED <<script, run, ui, out, calls, invoke_input>>

\* model = ChatGoogleGenerativeAI(...): the client is built, or the SDK raises
NewChatModel ==
    /\ At("ChatGoogleGenerativeAI")
    /\ \/ /\ calls' = Append(calls, Call(Cur.op, Cur.text, {}, TRUE, <<>>))
          /\ g' = [g EXCEPT !.model = Cur.op]
          /\ Goto(1)
       \/ /\ calls' = Append(calls, Call(Cur.op, Cur.text, {}, FALSE, <<>>))
          /\ g' = g
          /\ Raise("SDKError")
    /\ UNCHANGED <<script, run, ui, out, invoke_input>>

\* embedding = GoogleGenerativeAIEmbeddings(...)
NewEmbeddings ==
    /\ At("GoogleGenerativeAIEmbeddings")
    /\ \/ /\ calls' = Append(calls, Call(Cur.op, Cur.text, {}, TRUE, <<>>))
          /\ g' = [g EXCEPT !.embedding = Cur.op]
          /\ Goto(1)
       \/ /\ calls' = Append(calls, Call(Cur.op, Cur.text, {}, FALSE, <<>>))
          /\ g' = g
          /\ Raise("SDKError")
    /\ UNCHANGED <<script, run, ui, out, invoke_input>>

\* the argument of model.invoke: a literal, or the global the statement names
InvokeArg == IF Cur.options = <<>> THEN Cur.text ELSE <<g[Cur.options[1]]>>

\* result = model.invoke(...): the hosted model answers, or the SDK raises
ModelInvoke ==
    /\ At("model.invoke")
    /\ \/ \E r \in Responses :
             /\ calls' = Append(calls, Call(Cur.op, InvokeArg, {}, TRUE, <<r>>))
             /\ g' = [g EXCEPT !.result = [content |-> r]]
             /\ Goto(1)
       \/ /\ calls' = Append(calls, Call(Cur.op, InvokeArg, {}, FALSE, <<>>))
          /\ g' = g
          /\ Raise("SDKError")
    /\ UNCHANGED <<script, run, ui, out, invoke_input>>

\* result = embedding.embed_documents(documents): one vector per document
EmbedDocuments ==
    /\ At("embedding.embed_documents")
    /\ \/ \E r \in [1..Len(g.documents) -> Vectors] :
             /\ calls' = Append(calls, Call(Cur.op, g.documents, {}, TRUE, r))
             /\ g' = [g EXCEPT !.result = r]
             /\ Goto(1)
       \/ /\ calls' = Append(calls, Call(Cur.op, g.documents, {}, FALSE, <<>>))
          /\ g' = g
          /\ Raise("SDKError")
    /\ UNCHANGED <<script, run, ui, out, invoke_input>>

\* faulty variant: the statement prints nothing
PrintResultContent_Omitted ==
    /\ At("print(result.content)")
    /\ Goto(1)
    /\ UNCHANGED <<script, run, g, ui, out, calls, invoke_input>>

\* print(result.content)
PrintResultContent ==
    /\ At("print(result.content)")
    /\ out' = Append(out, Emit("print", "result", <<g.result.content>>))
    /\ Goto(1)
    /\ UNCHANGED <<script, run, g, ui, calls, invoke_input>>

\* print("Query Result: " + str(result))
PrintQueryResult ==
    /\ At("print(str(result))")
    /\ out' = Append(out, Emit("print", "result", Cur.text \o str(g.result)))
    /\ Goto(1)
    /\ UNCHANGED <<script, run, g, ui, calls, invoke_input>>


\* st.header("...")
StHeader ==
    /\ At("st.header")
    /\ out' = Append(out, Emit("st.header", "", Cur.text))
    /\ Goto(1)
    /\ UNCHANGED <<script, run, g, ui, calls, invoke_input>>

\* the user's setting of the widget labelled l becomes v
SetWidget(l, v) == {p \in ui : p[1] # l} \cup {<<l, v>>}

\* On the first execution of a Streamlit script every widget holds its
\* default; on a re-execution it holds whatever the user has set.
TextInputValues == IF run = 0 THEN {""} ELSE Queries

SelectboxValues(options) ==
    IF run = 0 THEN {options[1]} ELSE {options[i] : i \in 1..Len(options)}

ButtonValues == IF run = 0 THEN {FALSE} ELSE BOOLEAN

\* user_input = st.text_input("...")
StTextInput ==
    /\ At("st.text_input")
    /\ \E v \in TextInputValues :
          /\ ui' = SetWidget(Cur.text[1], v)
          /\ g' = [g EXCEPT ![Cur.target] = v]
    /\ Goto(1)
    /\ UNCHANGED <<script, run, out, calls, invoke_input>>

\* x = st.selectbox("...", [...])
StSelectbox ==
    /\ At("st.selectbox")
    /\ \E v \in SelectboxValues(Cur.options) :
          /\ ui' = SetWidget(Cur.text[1], v)
          /\ g' = [g EXCEPT ![Cur.target] = v]
    /\ Goto(1)
    /\ UNCHANGED <<script, run, out, calls, invoke_input>>

\* if st.button("..."): the body runs only in the execution the click caused
StButton ==
    /\ At("st.button")
    /\ \E b \in ButtonValues :
          /\ ui' = SetWidget(Cur.text[1], IF b THEN "True" ELSE "False")
          /\ Goto(Branch(b, Cur.skip))
    /\ UNCHANGED <<script, run, g, out, calls, invoke_input>>

\* chain = template | model
Pipe ==
    /\ At("template | model")
    /\ g' = [g EXCEPT !.chain = <<"template", "model">>]
    /\ Goto(1)
    /\ UNCHANGED <<script, run, ui, out, calls, invoke_input>>

\* result = chain.invoke({...}): the template is formatted with the dict, the
\* prompt goes to the hosted model; a key the template needs and the dict
\* lacks is a KeyError before any request is made
ChainInvoke ==
    /\ At("chain.invoke")
    /\ LET kw == DictOf(Cur.text, Cur.options, g)
           needed == {g.template.input_variables[i] :
                         i \in 1..Len(g.template.input_variables)}
       IN  IF needed \subseteq Keys(kw)
           THEN \/ \E r \in Responses :
                      /\ calls' = Append(calls,
                            Call(Cur.op, format(g.template.template, kw), kw,
                                 TRUE, <<r>>))
                      /\ g' = [g EXCEPT !.result = [content |-> r]]
                      /\ Goto(1)
                \/ /\ calls' = Append(calls,
                         Call(Cur.op, format(g.template.template, kw), kw,
                              FALSE, <<>>))
                   /\ g' = g
                   /\ Raise("SDKError")
           ELSE /\ calls' = calls
                /\ g' = g
                /\ Raise("KeyError")
    /\ UNCHANGED <<script, run, ui, out, invoke_input>>

\* st.write(result.content)
StWriteResultContent ==
    /\ At("st.write(result.content)")
    /\ out' = Append(out, Emit("st.write", "result", <<g.result.content>>))
    /\ Goto(1)
    /\ UNCHANGED <<script, run, g, ui, calls, invoke_input>>

\* template = PromptTemplate(template=..., input_variables=...,
\*                           validate_template=True)
NewPromptTemplate ==
    /\ At("PromptTemplate")
    /\ IF check_valid_template(Cur.text, Cur.options)
       THEN /\ g' = [g EXCEPT !.template =
                       [template |-> Cur.text, input_variables |-> Cur.options]]
            /\ Goto(1)
       ELSE /\ g' = g
            /\ Raise("ValueError")
    /\ UNCHANGED <<script, run, ui, out, calls, invoke_input>>

\* chat_template = ChatPromptTemplate([...])
NewChatPromptTemplate ==
    /\ At("ChatPromptTemplate")
    /\ g' = [g EXCEPT !.chat_template = ChatMessages]
    /\ Goto(1)
    /\ UNCHANGED <<script, run, ui, out, calls, invoke_input>>

\* prompt = chat_template.invoke({...})
ChatTemplateInvoke ==
    /\ At("chat_template.invoke")
    /\ IF chat_input_variables(g.chat_template) \subseteq Keys(invoke_input)
       THEN /\ g' = [g EXCEPT !.prompt =
                       format_messages(g.chat_template, invoke_input)]
            /\ Goto(1)
       ELSE /\ g' = g
            /\ Raise("KeyError")
    /\ UNCHANGED <<script, run, ui, out, calls, invoke_input>>

\* the text print() shows for a prompt value
RECURSIVE repr_messages(_)
repr_messages(ms) ==
    IF ms = <<>> THEN <<>>
    ELSE <<ms[1].type, "(content='">> \o ms[1].content
         \o <<"', additional_kwargs={}, response_metadata={})">>
         \o (IF Len(ms) = 1 THEN <<>> ELSE <<", ">>)
         \o repr_messages(Tail(ms))

\* print(prompt)
PrintPrompt ==
    /\ At("print(prompt)")
    /\ out' = Append(out, Emit("print", "prompt",
                 <<"messages=[">> \o repr_messages(g.prompt) \o <<"]">>))
    /\ Goto(1)
    /\ UNCHANGED <<script, run, g, ui, calls, invoke_input>>

\* A widget interaction makes Streamlit execute the script again from its
\* first line, with fresh globals and an empty page.
Rerun ==
    /\ script \in StreamlitScripts
    /\ status \in {"done", "raised"}
    /\ run < MaxRuns
    /\ run' = run + 1
    /\ pc' = 1
    /\ status' = "running"
    /\ error' = None
    /\ g' = NoGlobals
    /\ ui' = {}
    /\ out' = <<>>
    /\ calls' = <<>>
    /\ UNCHANGED <<script, invoke_input>>

Next ==
    \/ LoadDotenv
    \/ PrintLiteral
    \/ AssignDocuments
    \/ NewChatModel
    \/ NewEmbeddings
    \/ ModelInvoke
    \/ EmbedDocuments
    \/ PrintResultContent
    \/ PrintQueryResult
    \/ StHeader
    \/ StTextInput
    \/ StSelectbox
    \/ StButton
    \/ Pipe
    \/ ChainInvoke
    \/ StWriteResultContent
    \/ NewPromptTemplate
    \/ NewChatPromptTemplate
    \/ ChatTemplateInvoke
    \/ PrintPrompt
    \/ Rerun

Spec == Init /\ [][Next]_vars

(***************************************************************************)
(* chatPromptTemplate.py with the dict of line 8 drawn from Values.        *)
(***************************************************************************)
InitFormat ==
    \E d \in Values, t \in Values :
        InitRun("chatPromptTemplate.py", {<<"domain", d>>, <<"topic", t>>})

NextFormat ==
    \/ NewChatPromptTemplate
    \/ ChatTemplateInvoke
    \/ PrintPrompt

SpecFormat == InitFormat /\ [][NextFormat]_vars


(***************************************************************************)
(* Vocabulary of the properties.                                           *)
(***************************************************************************)
\* the calls that reach a hosted model, and the client constructors
HostedFns == {"model.invoke", "chain.invoke", "embedding.embed_documents"}

ClientFns == {"ChatGoogleGenerativeAI", "GoogleGenerativeAIEmbeddings"}

HostedCalls == {i \in 1..Len(calls) : calls[i].fn \in HostedFns}

\* the positions of out that show the value of `result`
ResponseShown == {j \in 1..Len(out) : out[j].src = "result"}

IsAnswer(x) == x \in Responses \cup Vectors

\* the emitted text o carries exactly the answer of call c
Shows(o, c) == o.src = "result" /\ SelectSeq(o.text, IsAnswer) = c.ret

\* the button of the running Streamlit script was pressed in this run
Pressed == <<"Summarize", "True">> \in ui \/ <<"Go.....", "True">> \in ui

RangeOf(xs) == {xs[i] : i \in 1..Len(xs)}

Dynamic == "dynamicPromptbasedApplication.py"

ThreeNames == {"paper_input", "style_input", "length_input"}

(***************************************************************************)
(* C1                                                                      *)
(***************************************************************************)
\* C1 as stated: every script invokes a hosted model and prints or displays
\* the response of that invocation -- so a run that has ended normally has
\* made a hosted call and has emitted its answer.
C1_EveryScriptInvokesAndShows ==
    status = "done" =>
        \E i \in HostedCalls : calls[i].ok /\ \E j \in 1..Len(out) : Shows(out[j], calls[i])

\* C1 amended: a run that ends without an error has made exactly one hosted
\* call and its last output shows that call's answer, for every script but
\* chatPromptTemplate.py and, in the two Streamlit scripts, only when the
\* button was pressed; chatPromptTemplate.py and a Streamlit run without
\* the button pressed make no hosted call and show no response.
C1_InvokesAndShowsWhenReached ==
    status = "done" =>
        IF script = "chatPromptTemplate.py" \/ (script \in StreamlitScripts /\ ~Pressed)
        THEN HostedCalls = {} /\ ResponseShown = {}
        ELSE /\ Cardinality(HostedCalls) = 1
             /\ \A i \in HostedCalls :
                   calls[i].ok /\ out # <<>> /\ Shows(out[Len(out)], calls[i])

C1_Witness ==
    /\ status = "done"
    /\ script = "embedd_docs.py"
    /\ \E i \in HostedCalls : calls[i].ret = <<"vec_a", "vec_b", "vec_a">>
    /\ out[Len(out)].text =
          <<"Query Result: ", "[", "vec_a", ", ", "vec_b", ", ", "vec_a", "]">>

(***************************************************************************)
(* C2                                                                      *)
(***************************************************************************)
\* C2: a call to the SDK that raises is the last call of its run: the run
\* is stopped at that statement with the error, no response has been shown,
\* and the call was made once only.
C2_ErrorsUncaught ==
    /\ \A i \in 1..Len(calls) :
          ~calls[i].ok =>
             /\ i = Len(calls)
             /\ status = "raised"
             /\ error = "SDKError"
             /\ Cur.line = calls[i].line
             /\ ResponseShown = {}
             /\ Cardinality({j \in 1..Len(calls) : calls[j].fn = calls[i].fn}) = 1
    /\ (status = "raised" /\ error = "SDKError") =>
          (calls # <<>> /\ ~calls[Len(calls)].ok)

C2_Witness ==
    /\ script = Dynamic
    /\ status = "raised"
    /\ calls # <<>>
    /\ calls[Len(calls)].fn = "chain.invoke"
    /\ ~calls[Len(calls)].ok
    /\ out # <<>>

(***************************************************************************)
(* C3                                                                      *)
(***************************************************************************)
\* C3: every construction of a client, and every hosted call, comes after
\* a completed load_dotenv() of the same run.
C3_DotenvBeforeClient ==
    \A i \in 1..Len(calls) :
        calls[i].fn \in ClientFns \cup HostedFns =>
            \E j \in 1..(i - 1) : calls[j].fn = "load_dotenv" /\ calls[j].ok

C3_Witness ==
    /\ script = "simpleUIApplication.py"
    /\ \E i \in 1..Len(calls) : calls[i].fn = "ChatGoogleGenerativeAI"
    /\ \E i \in 1..Len(calls) : calls[i].fn = "model.invoke"

(***************************************************************************)
(* C4                                                                      *)
(***************************************************************************)
\* C4: in one run there is at most one hosted call and at most one output
\* showing a response, and a response on show is the answer of a hosted call
\* that has returned.
C4_SingleShot ==
    /\ Cardinality(HostedCalls) <= 1
    /\ Cardinality(ResponseShown) <= 1
    /\ \A j \in ResponseShown :
          \E i \in HostedCalls : calls[i].ok /\ Shows(out[j], calls[i])

C4_Witness ==
    /\ script = "googleGeminiChatModelDemo.py"
    /\ status = "done"
    /\ Cardinality(HostedCalls) = 1
    /\ Cardinality(ResponseShown) = 1


(***************************************************************************)
(* C5 (under SpecFormat)                                                   *)
(***************************************************************************)
\* C5: once chat_template.invoke has run with a dict giving 'domain' the
\* value d and 'topic' the value t, prompt is exactly two messages, a system
\* message 'You are a helpful <d> expert' followed by a human message
\* 'Explain in simple terms, what is <t>'.
C5_ChatPromptMessages ==
    (script = "chatPromptTemplate.py" /\ (pc > 2 \/ status = "done")) =>
        LET d == Lookup(invoke_input, "domain")
            t == Lookup(invoke_input, "topic")
        IN  /\ error = None
            /\ Len(g.prompt) = 2
            /\ g.prompt[1].type = "SystemMessage"
            /\ g.prompt[1].content = <<"You are a helpful ", d, " expert">>
            /\ g.prompt[2].type = "HumanMessage"
            /\ g.prompt[2].content = <<"Explain in simple terms, what is ", t>>

C5_Witness ==
    /\ script = "chatPromptTemplate.py"
    /\ status = "done"
    /\ invoke_input = ChatTemplateInput
    /\ g.prompt[1].content = <<"You are a helpful ", "cricket", " expert">>
    /\ g.prompt[2].content = <<"Explain in simple terms, what is ", "Dusra">>
    /\ Len(out) = 1

(***************************************************************************)
(* C6                                                                      *)
(***************************************************************************)
\* C6: in dynamicPromptbasedApplication.py the placeholders of the template
\* text, the declared input_variables and the keys of the dict handed to
\* chain.invoke are the one set {paper_input, style_input, length_input},
\* and neither the validation of the template nor its formatting raises.
C6_PlaceholdersDefined ==
    script = Dynamic =>
        /\ error \notin {"ValueError", "KeyError"}
        /\ pc > 1 =>
              /\ get_template_variables(g.template.template) = ThreeNames
              /\ RangeOf(g.template.input_variables) = ThreeNames
        /\ \A i \in 1..Len(calls) :
              calls[i].fn = "chain.invoke" => Keys(calls[i].kw) = ThreeNames

C6_Witness ==
    /\ script = Dynamic
    /\ status = "done"
    /\ \E i \in 1..Len(calls) : calls[i].fn = "chain.invoke" /\ calls[i].ok

(***************************************************************************)
(* C7                                                                      *)
(***************************************************************************)
\* the current selection of the select box labelled l
Selected(l) == Lookup(ui, l)

\* C7: chain.invoke is called only in a run in which 'Summarize' was
\* pressed, with paper_input, style_input and length_input bound to the
\* current selections of the paper, style and length select boxes, each one
\* of that box's 4, 4 and 3 options; and a run with 'Summarize' pressed that
\* ends normally has made that call.
C7_ChainGetsSelections ==
    /\ \A i \in 1..Len(calls) :
          calls[i].fn = "chain.invoke" =>
             /\ <<"Summarize", "True">> \in ui
             /\ calls[i].kw =
                   { <<"paper_input",  Selected("Select Research Paper Name")>>,
                     <<"style_input",  Selected("Select Explanation Style")>>,
                     <<"length_input", Selected("Select Explanation Length")>> }
             /\ Lookup(calls[i].kw, "paper_input") \in RangeOf(PaperOptions)
             /\ Lookup(calls[i].kw, "style_input") \in RangeOf(StyleOptions)
             /\ Lookup(calls[i].kw, "length_input") \in RangeOf(LengthOptions)
    /\ Cardinality(RangeOf(PaperOptions)) = 4
    /\ Cardinality(RangeOf(StyleOptions)) = 4
    /\ Cardinality(RangeOf(LengthOptions)) = 3
    /\ (script = Dynamic /\ status = "done" /\ <<"Summarize", "True">> \in ui) =>
          \E i \in 1..Len(calls) : calls[i].fn = "chain.invoke"

C7_Witness ==
    /\ script = Dynamic
    /\ \E i \in 1..Len(calls) :
          /\ calls[i].fn = "chain.invoke"
          /\ calls[i].kw =
                { <<"paper_input",  "GPT-3: Language Models are Few-Shot Learners">>,
                  <<"style_input",  "Technical">>,
                  <<"length_input", "Long (detailed explanation)">> }
          /\ calls[i].args[2] = "GPT-3: Language Models are Few-Shot Learners"
          /\ calls[i].args[4] = "Technical"
          /\ calls[i].args[6] = "Long (detailed explanation)"

====
